---- MODULE Spec2Model ----
(***************************************************************************)
(* Model of rgraph's Graph (src/src/graph.rs): a singly linked chain of    *)
(* vertices, each owning a singly linked chain of outgoing edges.          *)
(*                                                                         *)
(* A chain (Option<Box<Node>> with next links) is a sequence: <<>> is None *)
(* and Head/Tail are the node and its next link.  Option<T> is the value   *)
(* or None.  A call that fails (fail! raised by Option::get_ref or         *)
(* take_unwrap on None) ends the task: ret = "panic", the graph keeps what *)
(* the call had written before the failure, and no later call is made.     *)
(*                                                                         *)
(* The caller is between two calls (op.name = "idle") or holds the result  *)
(* of the call it just made (op, ret, out).  given is the vector the graph *)
(* was constructed from (empty for Graph::new).                             *)
(***************************************************************************)
EXTENDS Integers, Sequences, FiniteSets, TLC

VARIABLES vertices, len, directed, op, ret, out, given

vars == <<vertices, len, directed, op, ret, out, given>>

\* ------------------------------------------------------------ domains
Keys == {"A", "B", "C"}
Labels == {"l1"}
Values == {"v1"}
None == "None"
OptLabels == Labels \cup {None}
OptValues == Values \cup {None}

\* The most edges a graph holds at once: under Spec, which makes every
\* Graph call (and under SpecBulk, after a Vertex::add_edge on a handle);
\* under SpecEdges, which makes the edge calls of Graph and of Vertex; under
\* SpecChain, which makes the calls that link and unlink nodes.
MaxEdges == 1

MaxValuedEdges == 2

MaxChainEdges == 4

\* The largest value the model lets the len counter take (a uint in the
\* code, which remove_vertex never decrements).
MaxLen == 4

\* The most vertices in the vector given to new_with_vertices.
MaxBulk == 2

\* ------------------------------------------------------------ Edge
Edge_new(to_key) == [value |-> None, to_key |-> to_key]

Edge_new_with_value(to_key, value) == [value |-> value, to_key |-> to_key]

\* ------------------------------------------------------------ VertexUtils
RECURSIVE VertexUtils_get_edge_imm(_, _)
\* The sub-chain starting at the first edge to to_key; <<>> is None.
VertexUtils_get_edge_imm(edge, to_key) ==
  IF edge = <<>> THEN <<>>
  ELSE IF Head(edge).to_key = to_key THEN edge
  ELSE VertexUtils_get_edge_imm(Tail(edge), to_key)

RECURSIVE VertexUtils_add_edge(_, _)
VertexUtils_add_edge(edge, new_edge) ==
  IF edge = <<>> THEN <<new_edge>>
  ELSE <<Head(edge)>> \o VertexUtils_add_edge(Tail(edge), new_edge)

\* Faulty variant: the value is written to the first edge of the chain.
VertexUtils_update_edge_value_head(edge, value, to_key) ==
  IF edge = <<>> THEN <<>>
  ELSE <<[Head(edge) EXCEPT !.value = value]>> \o Tail(edge)

RECURSIVE VertexUtils_update_edge_value(_, _, _)
VertexUtils_update_edge_value(edge, value, to_key) ==
  IF edge = <<>> THEN <<>>
  ELSE IF Head(edge).to_key = to_key
       THEN <<[Head(edge) EXCEPT !.value = value]>> \o Tail(edge)
       ELSE <<Head(edge)>> \o VertexUtils_update_edge_value(Tail(edge), value, to_key)

RECURSIVE VertexUtils_remove_edge(_, _)
\* e.next.get_ref() fails when e is the last edge: the key of e itself is
\* never compared.
VertexUtils_remove_edge(edge, to_key) ==
  IF edge = <<>> THEN [chain |-> <<>>, panic |-> FALSE]
  ELSE IF Tail(edge) = <<>> THEN [chain |-> edge, panic |-> TRUE]
  ELSE IF Head(Tail(edge)).to_key = to_key
       THEN [chain |-> <<Head(edge)>> \o Tail(Tail(edge)), panic |-> FALSE]
       ELSE LET r == VertexUtils_remove_edge(Tail(edge), to_key)
            IN  [chain |-> <<Head(edge)>> \o r.chain, panic |-> r.panic]

\* ------------------------------------------------------------ Vertex
Vertex_new(key) == [key |-> key, label |-> None, edges |-> <<>>]

Vertex_new_with_label(key, label) == [key |-> key, label |-> label, edges |-> <<>>]

\* edges.shift() is the head of the chain; every other edge is appended.
RECURSIVE Vertex_new_with_edges(_, _)
Vertex_new_with_edges(key, edges) ==
  IF Len(edges) <= 1 THEN [key |-> key, label |-> None, edges |-> edges]
  ELSE LET v == Vertex_new_with_edges(key, SubSeq(edges, 1, Len(edges) - 1))
       IN  [v EXCEPT !.edges = VertexUtils_add_edge(v.edges, edges[Len(edges)])]

Vertex_new_with_label_edges(key, label, edges) ==
  [Vertex_new_with_edges(key, edges) EXCEPT !.label = label]

\* set_label and remove_label return nothing: ret is TRUE for a call that
\* returned.
Vertex_set_label(v, new_label) ==
  [v |-> [v EXCEPT !.label = new_label], ret |-> TRUE, panic |-> FALSE]

Vertex_remove_label(v) ==
  [v |-> [v EXCEPT !.label = None], ret |-> TRUE, panic |-> FALSE]

Vertex_edge_exist(v, key) == VertexUtils_get_edge_imm(v.edges, key) # <<>>

\* Each Vertex method gives the vertex after the call, what it returned and
\* whether it failed.
Vertex_add_edge_opt_v(v, to_key, value) ==
  IF ~Vertex_edge_exist(v, to_key)
  THEN [v |-> [v EXCEPT !.edges =
                 VertexUtils_add_edge(v.edges,
                    IF value # None THEN Edge_new_with_value(to_key, value)
                                    ELSE Edge_new(to_key))],
        ret |-> TRUE, panic |-> FALSE]
  ELSE [v |-> v, ret |-> FALSE, panic |-> FALSE]

\* Faulty variant: an existing edge is refused but takes the value passed.
Vertex_add_edge_v_upsert(v, to_key, value) ==
  IF ~Vertex_edge_exist(v, to_key)
  THEN [v |-> [v EXCEPT !.edges =
                 VertexUtils_add_edge(v.edges, Edge_new_with_value(to_key, value))],
        ret |-> TRUE, panic |-> FALSE]
  ELSE [v |-> [v EXCEPT !.edges =
                 VertexUtils_update_edge_value(v.edges, value, to_key)],
        ret |-> FALSE, panic |-> FALSE]

Vertex_add_edge_v(v, to_key, value) ==
  IF ~Vertex_edge_exist(v, to_key)
  THEN [v |-> [v EXCEPT !.edges =
                 VertexUtils_add_edge(v.edges, Edge_new_with_value(to_key, value))],
        ret |-> TRUE, panic |-> FALSE]
  ELSE [v |-> v, ret |-> FALSE, panic |-> FALSE]

\* Faulty variant: the edge is appended without the existence check.
Vertex_add_edge_unchecked(v, to_key) ==
  [v |-> [v EXCEPT !.edges = VertexUtils_add_edge(v.edges, Edge_new(to_key))],
   ret |-> TRUE, panic |-> FALSE]

Vertex_add_edge(v, to_key) ==
  IF ~Vertex_edge_exist(v, to_key)
  THEN [v |-> [v EXCEPT !.edges = VertexUtils_add_edge(v.edges, Edge_new(to_key))],
        ret |-> TRUE, panic |-> FALSE]
  ELSE [v |-> v, ret |-> FALSE, panic |-> FALSE]

Vertex_remove_edge(v, to_key) ==
  IF Vertex_edge_exist(v, to_key)
  THEN LET r == VertexUtils_remove_edge(v.edges, to_key)
       IN  [v |-> [v EXCEPT !.edges = r.chain], ret |-> TRUE, panic |-> r.panic]
  ELSE [v |-> v, ret |-> FALSE, panic |-> FALSE]

Vertex_set_edge_value_opt(v, to_key, new_value) ==
  IF Vertex_edge_exist(v, to_key)
  THEN [v |-> [v EXCEPT !.edges =
                 VertexUtils_update_edge_value(v.edges, new_value, to_key)],
        ret |-> TRUE, panic |-> FALSE]
  ELSE [v |-> v, ret |-> FALSE, panic |-> FALSE]

Vertex_set_edge_value(v, to_key, new_value) ==
  IF Vertex_edge_exist(v, to_key)
  THEN [v |-> [v EXCEPT !.edges =
                 VertexUtils_update_edge_value(v.edges, new_value, to_key)],
        ret |-> TRUE, panic |-> FALSE]
  ELSE [v |-> v, ret |-> FALSE, panic |-> FALSE]

Vertex_remove_edge_value(v, to_key) ==
  IF Vertex_edge_exist(v, to_key)
  THEN [v |-> [v EXCEPT !.edges =
                 VertexUtils_update_edge_value(v.edges, None, to_key)],
        ret |-> TRUE, panic |-> FALSE]
  ELSE [v |-> v, ret |-> FALSE, panic |-> FALSE]

\* ------------------------------------------------------------ GraphUtils
RECURSIVE GraphUtils_get_vertex_imm(_, _)
\* The sub-chain starting at the first vertex with the key; <<>> is None.
GraphUtils_get_vertex_imm(vertex, key) ==
  IF vertex = <<>> THEN <<>>
  ELSE IF Head(vertex).key = key THEN vertex
  ELSE GraphUtils_get_vertex_imm(Tail(vertex), key)

RECURSIVE GraphUtils_get_vertex_mut(_, _)
\* The position in the chain of the first vertex with the key; 0 is None.
GraphUtils_get_vertex_mut(vertex, key) ==
  IF vertex = <<>> THEN 0
  ELSE IF Head(vertex).key = key THEN 1
  ELSE LET i == GraphUtils_get_vertex_mut(Tail(vertex), key)
       IN  IF i = 0 THEN 0 ELSE i + 1

\* Faulty variant: the new vertex becomes the head of the chain.
GraphUtils_add_vertex_front(vertex, new_vertex) == <<new_vertex>> \o vertex

RECURSIVE GraphUtils_add_vertex(_, _)
GraphUtils_add_vertex(vertex, new_vertex) ==
  IF vertex = <<>> THEN <<new_vertex>>
  ELSE <<Head(vertex)>> \o GraphUtils_add_vertex(Tail(vertex), new_vertex)

\* Faulty variant: the label is written to the first vertex of the chain.
GraphUtils_update_vertex_label_head(vertex, label, key) ==
  IF vertex = <<>> THEN <<>>
  ELSE <<[Head(vertex) EXCEPT !.label = label]>> \o Tail(vertex)

RECURSIVE GraphUtils_update_vertex_label(_, _, _)
GraphUtils_update_vertex_label(vertex, label, key) ==
  IF vertex = <<>> THEN <<>>
  ELSE IF Head(vertex).key = key
       THEN <<[Head(vertex) EXCEPT !.label = label]>> \o Tail(vertex)
       ELSE <<Head(vertex)>> \o GraphUtils_update_vertex_label(Tail(vertex), label, key)

\* Faulty variant: the walk finds the vertex and leaves it linked.
GraphUtils_remove_vertex_keep(vertex, key) ==
  [chain |-> vertex,
   panic |-> /\ vertex # <<>>
             /\ \A i \in 2..Len(vertex) : vertex[i].key # key]

RECURSIVE GraphUtils_remove_vertex(_, _)
\* v.next.get_ref() fails when v is the last vertex: the key of v itself is
\* never compared.
GraphUtils_remove_vertex(vertex, key) ==
  IF vertex = <<>> THEN [chain |-> <<>>, panic |-> FALSE]
  ELSE IF Tail(vertex) = <<>> THEN [chain |-> vertex, panic |-> TRUE]
  ELSE IF Head(Tail(vertex)).key = key
       THEN [chain |-> <<Head(vertex)>> \o Tail(Tail(vertex)), panic |-> FALSE]
       ELSE LET r == GraphUtils_remove_vertex(Tail(vertex), key)
            IN  [chain |-> <<Head(vertex)>> \o r.chain, panic |-> r.panic]

RECURSIVE GraphUtils_remove_edge_to_first(_, _)
\* Faulty variant: the walk stops at the first vertex it removed an edge from.
GraphUtils_remove_edge_to_first(vertex, key) ==
  IF vertex = <<>> THEN [chain |-> <<>>, panic |-> FALSE]
  ELSE LET v == Head(vertex)
           r == IF Vertex_edge_exist(v, key)
                THEN Vertex_remove_edge(v, key)
                ELSE [v |-> v, ret |-> FALSE, panic |-> FALSE]
       IN  IF r.panic \/ r.ret
           THEN [chain |-> <<r.v>> \o Tail(vertex), panic |-> r.panic]
           ELSE LET rest == GraphUtils_remove_edge_to_first(Tail(vertex), key)
                IN  [chain |-> <<r.v>> \o rest.chain, panic |-> rest.panic]

RECURSIVE GraphUtils_remove_edge_to(_, _)
\* Vertices are visited in chain order; a failure in one vertex's
\* remove_edge leaves the later vertices unvisited.
GraphUtils_remove_edge_to(vertex, key) ==
  IF vertex = <<>> THEN [chain |-> <<>>, panic |-> FALSE]
  ELSE LET v == Head(vertex)
           r == IF Vertex_edge_exist(v, key)
                THEN Vertex_remove_edge(v, key)
                ELSE [v |-> v, ret |-> FALSE, panic |-> FALSE]
       IN  IF r.panic
           THEN [chain |-> <<r.v>> \o Tail(vertex), panic |-> TRUE]
           ELSE LET rest == GraphUtils_remove_edge_to(Tail(vertex), key)
                IN  [chain |-> <<r.v>> \o rest.chain, panic |-> rest.panic]

\* ------------------------------------------------------------ iterators
\* One call of next(): the item yielded (<<>> at the end of the chain), the
\* iterator's new head, and whether label.get_ref() failed on an absent label.
VertexIterator_next(head) ==
  IF head = <<>> THEN [item |-> <<>>, head |-> <<>>, panic |-> FALSE]
  ELSE IF Head(head).label = None
       THEN [item |-> <<>>, head |-> Tail(head), panic |-> TRUE]
       ELSE [item |-> <<Head(head).key, Head(head).label>>,
             head |-> Tail(head), panic |-> FALSE]

EdgeIterator_next(head) ==
  IF head = <<>> THEN [item |-> <<>>, head |-> <<>>, panic |-> FALSE]
  ELSE IF Head(head).value = None
       THEN [item |-> <<>>, head |-> Tail(head), panic |-> TRUE]
       ELSE [item |-> <<Head(head).to_key, Head(head).value>>,
             head |-> Tail(head), panic |-> FALSE]

RECURSIVE VertexIterator_collect(_)
\* next() called until it reports the end: the items yielded, in order.
VertexIterator_collect(head) ==
  LET n == VertexIterator_next(head)
  IN  IF n.panic THEN [items |-> <<>>, panic |-> TRUE]
      ELSE IF n.item = <<>> THEN [items |-> <<>>, panic |-> FALSE]
      ELSE LET rest == VertexIterator_collect(n.head)
           IN  [items |-> <<n.item>> \o rest.items, panic |-> rest.panic]

RECURSIVE EdgeIterator_collect(_)
EdgeIterator_collect(head) ==
  LET n == EdgeIterator_next(head)
  IN  IF n.panic THEN [items |-> <<>>, panic |-> TRUE]
      ELSE IF n.item = <<>> THEN [items |-> <<>>, panic |-> FALSE]
      ELSE LET rest == EdgeIterator_collect(n.head)
           IN  [items |-> <<n.item>> \o rest.items, panic |-> rest.panic]

\* ------------------------------------------------------------ Graph
\* A graph value g is [vertices, len, directed].  Each mutating method gives
\* the graph after the call, what it returned and whether it failed.
Graph_new == [vertices |-> <<>>, len |-> 0, directed |-> TRUE]

\* Faulty variant: the graph built from a vector is flagged undirected.
Graph_new_with_vertices_undirected(vs) ==
  [vertices |-> vs, len |-> 0, directed |-> FALSE]

\* vertices.shift() is the head of the chain; every other vertex is appended.
\* len is written once, as 0.
RECURSIVE Graph_new_with_vertices(_)
Graph_new_with_vertices(vs) ==
  IF Len(vs) <= 1 THEN [vertices |-> vs, len |-> 0, directed |-> TRUE]
  ELSE LET g == Graph_new_with_vertices(SubSeq(vs, 1, Len(vs) - 1))
       IN  [g EXCEPT !.vertices = GraphUtils_add_vertex(g.vertices, vs[Len(vs)])]

Graph_is_directed(g) == g.directed

\* Faulty variant: the lookup stops at the first vertex.
Graph_vertex_exist_head_only(g, vertex_key) ==
  g.vertices # <<>> /\ Head(g.vertices).key = vertex_key

Graph_vertex_exist(g, vertex_key) ==
  GraphUtils_get_vertex_imm(g.vertices, vertex_key) # <<>>

Graph_edge_exist(g, from_key, to_key) ==
  LET v == GraphUtils_get_vertex_imm(g.vertices, from_key)
  IN  IF v # <<>> THEN Vertex_edge_exist(Head(v), to_key) ELSE FALSE

\* Faulty variant: the target vertex is not looked up.
Graph_adjacent_from_only(g, from_key, to_key) ==
  IF Graph_vertex_exist(g, from_key)
  THEN Vertex_edge_exist(Head(GraphUtils_get_vertex_imm(g.vertices, from_key)), to_key)
  ELSE FALSE

Graph_adjacent(g, from_key, to_key) ==
  IF Graph_vertex_exist(g, from_key) /\ Graph_vertex_exist(g, to_key)
  THEN Vertex_edge_exist(Head(GraphUtils_get_vertex_imm(g.vertices, from_key)), to_key)
  ELSE FALSE

Graph_get_vertex_label(g, vertex_key) ==
  IF Graph_vertex_exist(g, vertex_key)
  THEN Head(GraphUtils_get_vertex_imm(g.vertices, vertex_key)).label
  ELSE None

Graph_get_vertex_mut(g, vertex_key) == GraphUtils_get_vertex_mut(g.vertices, vertex_key)

Container_len(g) == g.len

Container_is_empty(g) == g.len = 0

\* Faulty variant: the chain is dropped and the count kept.
Mutable_clear_keep_len(g) ==
  [g |-> [g EXCEPT !.vertices = <<>>], ret |-> TRUE, panic |-> FALSE]

Mutable_clear(g) ==
  [g |-> [g EXCEPT !.vertices = <<>>, !.len = 0], ret |-> TRUE, panic |-> FALSE]

\* Faulty variant: the vertex is counted before the key is looked up.
Graph_add_vertex_opt_l_count_first(g, key, label) ==
  IF ~Graph_vertex_exist(g, key)
  THEN [g |-> [g EXCEPT
                 !.vertices = GraphUtils_add_vertex(g.vertices,
                                 IF label # None THEN Vertex_new_with_label(key, label)
                                                 ELSE Vertex_new(key)),
                 !.len = g.len + 1],
        ret |-> TRUE, panic |-> FALSE]
  ELSE [g |-> [g EXCEPT !.len = g.len + 1], ret |-> FALSE, panic |-> FALSE]

Graph_add_vertex_opt_l(g, key, label) ==
  IF ~Graph_vertex_exist(g, key)
  THEN [g |-> [g EXCEPT
                 !.vertices = GraphUtils_add_vertex(g.vertices,
                                 IF label # None THEN Vertex_new_with_label(key, label)
                                                 ELSE Vertex_new(key)),
                 !.len = g.len + 1],
        ret |-> TRUE, panic |-> FALSE]
  ELSE [g |-> g, ret |-> FALSE, panic |-> FALSE]

\* Faulty variant: a duplicate key is refused but the label passed is stored.
Graph_add_vertex_l_upsert(g, key, label) ==
  IF ~Graph_vertex_exist(g, key)
  THEN [g |-> [g EXCEPT
                 !.vertices = GraphUtils_add_vertex(g.vertices,
                                                    Vertex_new_with_label(key, label)),
                 !.len = g.len + 1],
        ret |-> TRUE, panic |-> FALSE]
  ELSE [g |-> [g EXCEPT !.vertices =
                 GraphUtils_update_vertex_label(g.vertices, label, key)],
        ret |-> FALSE, panic |-> FALSE]

Graph_add_vertex_l(g, key, label) ==
  IF ~Graph_vertex_exist(g, key)
  THEN [g |-> [g EXCEPT
                 !.vertices = GraphUtils_add_vertex(g.vertices,
                                                    Vertex_new_with_label(key, label)),
                 !.len = g.len + 1],
        ret |-> TRUE, panic |-> FALSE]
  ELSE [g |-> g, ret |-> FALSE, panic |-> FALSE]

Graph_add_vertex(g, key) ==
  IF ~Graph_vertex_exist(g, key)
  THEN [g |-> [g EXCEPT
                 !.vertices = GraphUtils_add_vertex(g.vertices, Vertex_new(key)),
                 !.len = g.len + 1],
        ret |-> TRUE, panic |-> FALSE]
  ELSE [g |-> g, ret |-> FALSE, panic |-> FALSE]

Graph_set_vertex_label_opt(g, vertex_key, new_label) ==
  IF Graph_vertex_exist(g, vertex_key)
  THEN [g |-> [g EXCEPT !.vertices =
                 GraphUtils_update_vertex_label(g.vertices, new_label, vertex_key)],
        ret |-> TRUE, panic |-> FALSE]
  ELSE [g |-> g, ret |-> FALSE, panic |-> FALSE]

Graph_set_vertex_label(g, vertex_key, new_label) ==
  IF Graph_vertex_exist(g, vertex_key)
  THEN [g |-> [g EXCEPT !.vertices =
                 GraphUtils_update_vertex_label(g.vertices, new_label, vertex_key)],
        ret |-> TRUE, panic |-> FALSE]
  ELSE [g |-> g, ret |-> FALSE, panic |-> FALSE]

\* Faulty variant: a vertex without label has nothing to remove and the call
\* reports false.
Graph_remove_vertex_label_strict(g, vertex_key) ==
  IF Graph_vertex_exist(g, vertex_key) /\ Graph_get_vertex_label(g, vertex_key) # None
  THEN [g |-> [g EXCEPT !.vertices =
                 GraphUtils_update_vertex_label(g.vertices, None, vertex_key)],
        ret |-> TRUE, panic |-> FALSE]
  ELSE [g |-> g, ret |-> FALSE, panic |-> FALSE]

Graph_remove_vertex_label(g, vertex_key) ==
  IF Graph_vertex_exist(g, vertex_key)
  THEN [g |-> [g EXCEPT !.vertices =
                 GraphUtils_update_vertex_label(g.vertices, None, vertex_key)],
        ret |-> TRUE, panic |-> FALSE]
  ELSE [g |-> g, ret |-> FALSE, panic |-> FALSE]

\* get_vertex_mut(from_key).unwrap().<method>: r is the Vertex method's
\* result on the vertex at position i, written back in place.
OnVertex(g, i, r) ==
  [g |-> [g EXCEPT !.vertices[i] = r.v], ret |-> r.ret, panic |-> r.panic]

\* Faulty variant: a target that is no vertex is added to the graph first.
Graph_add_edge_opt_v_autocreate(g, from_key, to_key, value) ==
  IF Graph_vertex_exist(g, from_key)
  THEN LET h == IF Graph_vertex_exist(g, to_key) THEN g
                ELSE [g EXCEPT
                        !.vertices = GraphUtils_add_vertex(g.vertices, Vertex_new(to_key)),
                        !.len = g.len + 1]
           i == GraphUtils_get_vertex_mut(h.vertices, from_key)
       IN  OnVertex(h, i, Vertex_add_edge_opt_v(h.vertices[i], to_key, value))
  ELSE [g |-> g, ret |-> FALSE, panic |-> FALSE]

Graph_add_edge_opt_v(g, from_key, to_key, value) ==
  IF Graph_vertex_exist(g, from_key) /\ Graph_vertex_exist(g, to_key)
  THEN LET i == GraphUtils_get_vertex_mut(g.vertices, from_key)
       IN  OnVertex(g, i, Vertex_add_edge_opt_v(g.vertices[i], to_key, value))
  ELSE [g |-> g, ret |-> FALSE, panic |-> FALSE]

\* Faulty variant: only the source vertex is looked up.
Graph_add_edge_v_from_only(g, from_key, to_key, value) ==
  IF Graph_vertex_exist(g, from_key)
  THEN LET i == GraphUtils_get_vertex_mut(g.vertices, from_key)
       IN  OnVertex(g, i, Vertex_add_edge_v(g.vertices[i], to_key, value))
  ELSE [g |-> g, ret |-> FALSE, panic |-> FALSE]

Graph_add_edge_v(g, from_key, to_key, value) ==
  IF Graph_vertex_exist(g, from_key) /\ Graph_vertex_exist(g, to_key)
  THEN LET i == GraphUtils_get_vertex_mut(g.vertices, from_key)
       IN  OnVertex(g, i, Vertex_add_edge_v(g.vertices[i], to_key, value))
  ELSE [g |-> g, ret |-> FALSE, panic |-> FALSE]

\* Faulty variant: the edge is stored in both endpoints.
Graph_add_edge_both_ways(g, from_key, to_key) ==
  IF Graph_vertex_exist(g, from_key) /\ Graph_vertex_exist(g, to_key)
  THEN LET i == GraphUtils_get_vertex_mut(g.vertices, from_key)
           j == GraphUtils_get_vertex_mut(g.vertices, to_key)
           r == OnVertex(g, i, Vertex_add_edge(g.vertices[i], to_key))
       IN  IF r.ret
           THEN [OnVertex(r.g, j, Vertex_add_edge(r.g.vertices[j], from_key))
                   EXCEPT !.ret = TRUE]
           ELSE r
  ELSE [g |-> g, ret |-> FALSE, panic |-> FALSE]

Graph_add_edge(g, from_key, to_key) ==
  IF Graph_vertex_exist(g, from_key) /\ Graph_vertex_exist(g, to_key)
  THEN LET i == GraphUtils_get_vertex_mut(g.vertices, from_key)
       IN  OnVertex(g, i, Vertex_add_edge(g.vertices[i], to_key))
  ELSE [g |-> g, ret |-> FALSE, panic |-> FALSE]

Graph_set_edge_value_opt(g, from_key, to_key, new_value) ==
  IF Graph_vertex_exist(g, from_key) /\ Graph_vertex_exist(g, to_key)
  THEN LET i == GraphUtils_get_vertex_mut(g.vertices, from_key)
       IN  OnVertex(g, i, Vertex_set_edge_value_opt(g.vertices[i], to_key, new_value))
  ELSE [g |-> g, ret |-> FALSE, panic |-> FALSE]

Graph_set_edge_value(g, from_key, to_key, new_value) ==
  IF Graph_vertex_exist(g, from_key) /\ Graph_vertex_exist(g, to_key)
  THEN LET i == GraphUtils_get_vertex_mut(g.vertices, from_key)
       IN  OnVertex(g, i, Vertex_set_edge_value(g.vertices[i], to_key, new_value))
  ELSE [g |-> g, ret |-> FALSE, panic |-> FALSE]

Graph_remove_edge_value(g, from_key, to_key) ==
  IF Graph_vertex_exist(g, from_key) /\ Graph_vertex_exist(g, to_key)
  THEN LET i == GraphUtils_get_vertex_mut(g.vertices, from_key)
       IN  OnVertex(g, i, Vertex_remove_edge_value(g.vertices[i], to_key))
  ELSE [g |-> g, ret |-> FALSE, panic |-> FALSE]

Graph_remove_edge(g, from_key, to_key) ==
  IF Graph_vertex_exist(g, from_key) /\ Graph_vertex_exist(g, to_key)
  THEN LET i == GraphUtils_get_vertex_mut(g.vertices, from_key)
       IN  OnVertex(g, i, Vertex_remove_edge(g.vertices[i], to_key))
  ELSE [g |-> g, ret |-> FALSE, panic |-> FALSE]

\* self.len is not written by remove_vertex.
Graph_remove_vertex(g, vertex_key) ==
  IF Graph_vertex_exist(g, vertex_key)
  THEN LET r1 == GraphUtils_remove_vertex(g.vertices, vertex_key)
       IN  IF r1.panic
           THEN [g |-> [g EXCEPT !.vertices = r1.chain], ret |-> TRUE, panic |-> TRUE]
           ELSE LET r2 == GraphUtils_remove_edge_to(r1.chain, vertex_key)
                IN  [g |-> [g EXCEPT !.vertices = r2.chain],
                     ret |-> TRUE, panic |-> r2.panic]
  ELSE [g |-> g, ret |-> FALSE, panic |-> FALSE]

\* ------------------------------------------------------------ state machine
G == [vertices |-> vertices, len |-> len, directed |-> directed]

RECURSIVE TotalEdges(_)
TotalEdges(chain) ==
  IF chain = <<>> THEN 0 ELSE Len(Head(chain).edges) + TotalEdges(Tail(chain))

\* The last call: its name, its first key, its second key and its label or
\* value argument (None where the call has none).
Op(name, k, t, x) == [name |-> name, k |-> k, t |-> t, x |-> x]

Idle == Op("idle", None, None, None)

\* A call of a mutating method whose result is r.
Call(o, r) ==
  /\ r.g.len <= MaxLen
  /\ vertices' = r.g.vertices
  /\ len' = r.g.len
  /\ directed' = r.g.directed
  /\ op' = o
  /\ ret' = IF r.panic THEN "panic" ELSE IF r.ret THEN "true" ELSE "false"
  /\ out' = <<>>
  /\ UNCHANGED given

\* A call of a read-only method that returned b.
Query(o, b) ==
  /\ op' = o
  /\ ret' = IF b THEN "true" ELSE "false"
  /\ out' = <<>>
  /\ UNCHANGED <<vertices, len, directed, given>>

Init ==
  /\ vertices = Graph_new.vertices
  /\ len = Graph_new.len
  /\ directed = Graph_new.directed
  /\ op = Idle
  /\ ret = "none"
  /\ out = <<>>
  /\ given = <<>>

add_vertex ==
  /\ op = Idle
  /\ \E key \in Keys :
       Call(Op("add_vertex", key, None, None), Graph_add_vertex(G, key))

add_vertex_l ==
  /\ op = Idle
  /\ \E key \in Keys, label \in Labels :
       Call(Op("add_vertex_l", key, None, label), Graph_add_vertex_l(G, key, label))

add_vertex_opt_l ==
  /\ op = Idle
  /\ \E key \in Keys, label \in OptLabels :
       Call(Op("add_vertex_opt_l", key, None, label),
            Graph_add_vertex_opt_l(G, key, label))

set_vertex_label ==
  /\ op = Idle
  /\ \E key \in Keys, label \in Labels :
       Call(Op("set_vertex_label", key, None, label),
            Graph_set_vertex_label(G, key, label))

set_vertex_label_opt ==
  /\ op = Idle
  /\ \E key \in Keys, label \in OptLabels :
       Call(Op("set_vertex_label_opt", key, None, label),
            Graph_set_vertex_label_opt(G, key, label))

remove_vertex_label ==
  /\ op = Idle
  /\ \E key \in Keys :
       Call(Op("remove_vertex_label", key, None, None),
            Graph_remove_vertex_label(G, key))

add_edge(cap) ==
  /\ op = Idle
  /\ \E from_key \in Keys, to_key \in Keys :
       /\ TotalEdges(Graph_add_edge(G, from_key, to_key).g.vertices) <= cap
       /\ Call(Op("add_edge", from_key, to_key, None),
               Graph_add_edge(G, from_key, to_key))

add_edge_v(cap) ==
  /\ op = Idle
  /\ \E from_key \in Keys, to_key \in Keys, value \in Values :
       /\ TotalEdges(Graph_add_edge_v(G, from_key, to_key, value).g.vertices) <= cap
       /\ Call(Op("add_edge_v", from_key, to_key, value),
               Graph_add_edge_v(G, from_key, to_key, value))

add_edge_opt_v(cap) ==
  /\ op = Idle
  /\ \E from_key \in Keys, to_key \in Keys, value \in OptValues :
       /\ TotalEdges(Graph_add_edge_opt_v(G, from_key, to_key, value).g.vertices) <= cap
       /\ Call(Op("add_edge_opt_v", from_key, to_key, value),
               Graph_add_edge_opt_v(G, from_key, to_key, value))

set_edge_value ==
  /\ op = Idle
  /\ \E from_key \in Keys, to_key \in Keys, value \in Values :
       Call(Op("set_edge_value", from_key, to_key, value),
            Graph_set_edge_value(G, from_key, to_key, value))

set_edge_value_opt ==
  /\ op = Idle
  /\ \E from_key \in Keys, to_key \in Keys, value \in OptValues :
       Call(Op("set_edge_value_opt", from_key, to_key, value),
            Graph_set_edge_value_opt(G, from_key, to_key, value))

remove_edge_value ==
  /\ op = Idle
  /\ \E from_key \in Keys, to_key \in Keys :
       Call(Op("remove_edge_value", from_key, to_key, None),
            Graph_remove_edge_value(G, from_key, to_key))

remove_edge ==
  /\ op = Idle
  /\ \E from_key \in Keys, to_key \in Keys :
       Call(Op("remove_edge", from_key, to_key, None),
            Graph_remove_edge(G, from_key, to_key))

remove_vertex ==
  /\ op = Idle
  /\ \E key \in Keys :
       Call(Op("remove_vertex", key, None, None), Graph_remove_vertex(G, key))

clear ==
  /\ op = Idle
  /\ Call(Op("clear", None, None, None), Mutable_clear(G))

is_directed ==
  /\ op = Idle
  /\ Query(Op("is_directed", None, None, None), Graph_is_directed(G))

vertex_exist ==
  /\ op = Idle
  /\ \E key \in Keys :
       Query(Op("vertex_exist", key, None, None), Graph_vertex_exist(G, key))

edge_exist ==
  /\ op = Idle
  /\ \E from_key \in Keys, to_key \in Keys :
       Query(Op("edge_exist", from_key, to_key, None),
             Graph_edge_exist(G, from_key, to_key))

adjacent ==
  /\ op = Idle
  /\ \E from_key \in Keys, to_key \in Keys :
       Query(Op("adjacent", from_key, to_key, None),
             Graph_adjacent(G, from_key, to_key))

\* vertices_iter() consumed until next() reports the end.
vertices_iter ==
  /\ op = Idle
  /\ LET r == VertexIterator_collect(vertices)
     IN  /\ op' = Op("vertices_iter", None, None, None)
         /\ ret' = IF r.panic THEN "panic" ELSE "end"
         /\ out' = r.items
         /\ UNCHANGED <<vertices, len, directed, given>>

\* get_vertex(key), and on Some(v) v.edges_iter() consumed until next()
\* reports the end.
edges_iter ==
  /\ op = Idle
  /\ \E key \in Keys :
       LET v == GraphUtils_get_vertex_imm(vertices, key)
           r == IF v = <<>> THEN [items |-> <<>>, panic |-> FALSE]
                ELSE EdgeIterator_collect(Head(v).edges)
       IN  /\ op' = Op("edges_iter", key, None, None)
           /\ ret' = IF r.panic THEN "panic" ELSE IF v = <<>> THEN "none" ELSE "end"
           /\ out' = r.items
           /\ UNCHANGED <<vertices, len, directed, given>>

\* A Vertex method called on the handle get_vertex_mut(key) gave: the call
\* is made when the handle is Some.
vertex_add_edge(cap) ==
  /\ op = Idle
  /\ \E key \in Keys, to_key \in Keys :
       LET i == Graph_get_vertex_mut(G, key)
           r == OnVertex(G, i, Vertex_add_edge(vertices[i], to_key))
       IN  /\ i # 0
           /\ TotalEdges(r.g.vertices) <= cap
           /\ Call(Op("vertex_add_edge", key, to_key, None), r)

vertex_add_edge_v(cap) ==
  /\ op = Idle
  /\ \E key \in Keys, to_key \in Keys, value \in Values :
       LET i == Graph_get_vertex_mut(G, key)
           r == OnVertex(G, i, Vertex_add_edge_v(vertices[i], to_key, value))
       IN  /\ i # 0
           /\ TotalEdges(r.g.vertices) <= cap
           /\ Call(Op("vertex_add_edge_v", key, to_key, value), r)

vertex_add_edge_opt_v(cap) ==
  /\ op = Idle
  /\ \E key \in Keys, to_key \in Keys, value \in OptValues :
       LET i == Graph_get_vertex_mut(G, key)
           r == OnVertex(G, i, Vertex_add_edge_opt_v(vertices[i], to_key, value))
       IN  /\ i # 0
           /\ TotalEdges(r.g.vertices) <= cap
           /\ Call(Op("vertex_add_edge_opt_v", key, to_key, value), r)

vertex_remove_edge ==
  /\ op = Idle
  /\ \E key \in Keys, to_key \in Keys :
       LET i == Graph_get_vertex_mut(G, key)
       IN  /\ i # 0
           /\ Call(Op("vertex_remove_edge", key, to_key, None),
                   OnVertex(G, i, Vertex_remove_edge(vertices[i], to_key)))

vertex_set_label ==
  /\ op = Idle
  /\ \E key \in Keys, label \in Labels :
       LET i == Graph_get_vertex_mut(G, key)
       IN  /\ i # 0
           /\ Call(Op("vertex_set_label", key, None, label),
                   OnVertex(G, i, Vertex_set_label(vertices[i], label)))

vertex_remove_label ==
  /\ op = Idle
  /\ \E key \in Keys :
       LET i == Graph_get_vertex_mut(G, key)
       IN  /\ i # 0
           /\ Call(Op("vertex_remove_label", key, None, None),
                   OnVertex(G, i, Vertex_remove_label(vertices[i])))

vertex_set_edge_value ==
  /\ op = Idle
  /\ \E key \in Keys, to_key \in Keys, value \in Values :
       LET i == Graph_get_vertex_mut(G, key)
       IN  /\ i # 0
           /\ Call(Op("vertex_set_edge_value", key, to_key, value),
                   OnVertex(G, i, Vertex_set_edge_value(vertices[i], to_key, value)))

vertex_set_edge_value_opt ==
  /\ op = Idle
  /\ \E key \in Keys, to_key \in Keys, value \in OptValues :
       LET i == Graph_get_vertex_mut(G, key)
       IN  /\ i # 0
           /\ Call(Op("vertex_set_edge_value_opt", key, to_key, value),
                   OnVertex(G, i, Vertex_set_edge_value_opt(vertices[i], to_key, value)))

vertex_remove_edge_value ==
  /\ op = Idle
  /\ \E key \in Keys, to_key \in Keys :
       LET i == Graph_get_vertex_mut(G, key)
       IN  /\ i # 0
           /\ Call(Op("vertex_remove_edge_value", key, to_key, None),
                   OnVertex(G, i, Vertex_remove_edge_value(vertices[i], to_key)))

\* The caller takes the result of a call that returned and is ready for the
\* next call.  A call that failed is never resumed.
resume ==
  /\ op # Idle
  /\ ret # "panic"
  /\ op' = Idle
  /\ ret' = "none"
  /\ out' = <<>>
  /\ UNCHANGED <<vertices, len, directed, given>>

Next ==
  \/ add_vertex
  \/ add_vertex_l
  \/ add_vertex_opt_l
  \/ set_vertex_label
  \/ set_vertex_label_opt
  \/ remove_vertex_label
  \/ add_edge(MaxEdges)
  \/ add_edge_v(MaxEdges)
  \/ add_edge_opt_v(MaxEdges)
  \/ set_edge_value
  \/ set_edge_value_opt
  \/ remove_edge_value
  \/ remove_edge
  \/ remove_vertex
  \/ clear
  \/ vertex_exist
  \/ edge_exist
  \/ adjacent
  \/ vertices_iter
  \/ edges_iter
  \/ resume

Spec == Init /\ [][Next]_vars

\* The calls that link and unlink vertices and edges, and the existence
\* checks.
NextChain ==
  \/ add_vertex
  \/ add_edge(MaxChainEdges)
  \/ remove_edge
  \/ remove_vertex
  \/ clear
  \/ vertex_exist
  \/ edge_exist
  \/ resume

SpecChain == Init /\ [][NextChain]_vars

\* The calls that add and remove vertices.
NextVertices ==
  \/ add_vertex
  \/ add_vertex_l
  \/ add_vertex_opt_l
  \/ remove_vertex
  \/ clear
  \/ resume

SpecVertices == Init /\ [][NextVertices]_vars

\* The calls that add and remove edges, on the Graph and on a Vertex handle.
NextEdges ==
  \/ add_vertex
  \/ add_edge(MaxValuedEdges)
  \/ add_edge_v(MaxValuedEdges)
  \/ add_edge_opt_v(MaxValuedEdges)
  \/ remove_edge
  \/ remove_vertex
  \/ vertex_add_edge(MaxValuedEdges)
  \/ vertex_add_edge_v(MaxValuedEdges)
  \/ vertex_add_edge_opt_v(MaxValuedEdges)
  \/ vertex_remove_edge
  \/ resume

SpecEdges == Init /\ [][NextEdges]_vars

\* The vertices a caller builds with the Vertex constructors: without edges,
\* or with a vector of one edge (Edge::new) whose target nothing checks.
BulkVertices ==
  {Vertex_new(k) : k \in Keys}
    \cup {Vertex_new_with_label(k, l) : k \in Keys, l \in Labels}
    \cup {Vertex_new_with_edges(k, <<Edge_new(t)>>) : k \in Keys, t \in Keys}
    \cup {Vertex_new_with_label_edges(k, l, <<Edge_new(t)>>) :
             k \in Keys, t \in Keys, l \in Labels}

RECURSIVE BulkVectors(_)
BulkVectors(n) ==
  IF n = 0 THEN {<<>>}
  ELSE BulkVectors(n - 1)
         \cup {Append(vs, v) : vs \in BulkVectors(n - 1), v \in BulkVertices}

\* The state after Graph::new_with_vertices(given).
InitBulk ==
  /\ given \in BulkVectors(MaxBulk)
  /\ vertices = Graph_new_with_vertices(given).vertices
  /\ len = Graph_new_with_vertices(given).len
  /\ directed = Graph_new_with_vertices(given).directed
  /\ op = Op("new_with_vertices", None, None, None)
  /\ ret = "none"
  /\ out = <<>>

\* A graph comes from either constructor.
InitAny == Init \/ InitBulk

\* A graph from either constructor, then queried, emptied, and modified
\* through a Vertex handle while it holds fewer than MaxEdges edges.
NextBulk ==
  \/ vertex_add_edge(MaxEdges)
  \/ clear
  \/ is_directed
  \/ vertex_exist
  \/ edge_exist
  \/ adjacent
  \/ resume

SpecBulk == InitAny /\ [][NextBulk]_vars

\* The calls that add vertices and edges and those that write edge values:
\* no call unlinks a node.
NextValues ==
  \/ add_vertex
  \/ add_vertex_l
  \/ add_vertex_opt_l
  \/ add_edge(MaxValuedEdges)
  \/ add_edge_v(MaxValuedEdges)
  \/ add_edge_opt_v(MaxValuedEdges)
  \/ set_edge_value
  \/ set_edge_value_opt
  \/ remove_edge_value
  \/ resume

SpecValues == Init /\ [][NextValues]_vars

\* The calls that write labels and edges, on the Graph and on a Vertex
\* handle, in a graph that add_vertex grows.
NextHandle ==
  \/ add_vertex
  \/ set_vertex_label
  \/ set_vertex_label_opt
  \/ remove_vertex_label
  \/ add_edge(MaxEdges)
  \/ add_edge_v(MaxEdges)
  \/ add_edge_opt_v(MaxEdges)
  \/ set_edge_value
  \/ set_edge_value_opt
  \/ remove_edge_value
  \/ remove_edge
  \/ vertex_set_label
  \/ vertex_remove_label
  \/ vertex_add_edge(MaxEdges)
  \/ vertex_add_edge_v(MaxEdges)
  \/ vertex_add_edge_opt_v(MaxEdges)
  \/ vertex_set_edge_value
  \/ vertex_set_edge_value_opt
  \/ vertex_remove_edge_value
  \/ vertex_remove_edge
  \/ resume

SpecHandle == Init /\ [][NextHandle]_vars

\* ------------------------------------------------------------ claims
AddVertexNames == {"add_vertex", "add_vertex_l", "add_vertex_opt_l"}

AddEdgeNames == {"add_edge", "add_edge_v", "add_edge_opt_v"}

\* The keys of the vertices of a chain.
KeysOf(chain) == {chain[i].key : i \in 1..Len(chain)}

\* The edge chain of the first vertex with the key.
EdgesOf(g, key) == Head(GraphUtils_get_vertex_imm(g.vertices, key)).edges

\* C1: after any sequence of add_vertex, add_vertex_l, add_vertex_opt_l,
\* remove_vertex and clear calls that returned, len() is the number of
\* vertices in the vertex chain.
C1_CountConsistency == ret # "panic" => Container_len(G) = Len(vertices)

C3_RemoveVertexResult ==
  [][op'.name = "remove_vertex"
       => /\ (ret' = "true") <=> Graph_vertex_exist(G, op'.k)
          /\ (ret' = "true") => ~Graph_vertex_exist(G', op'.k)]_vars

\* C4: every call of a public Graph operation on a reachable graph returns.
C4_NoPanic == ret # "panic"

\* C5: an add_vertex call of any shape for a key that is present returns
\* false and leaves len, the vertex chain, its labels and its edges as they
\* were.
C5_AddVertexUnique ==
  [][(op'.name \in AddVertexNames /\ Graph_vertex_exist(G, op'.k))
       => (ret' = "false" /\ vertices' = vertices /\ len' = len)]_vars

\* C5 witness: add_vertex_l(k, l) was refused for a vertex k that has an
\* edge and whose label is not l.
C5_Witness ==
  /\ op.name = "add_vertex_l"
  /\ ret = "false"
  /\ Graph_get_vertex_label(G, op.k) # op.x
  /\ EdgesOf(G, op.k) # <<>>

\* C6: no two vertices of the chain have equal keys.
C6_UniqueKeys ==
  \A i, j \in 1..Len(vertices) : vertices[i].key = vertices[j].key => i = j

\* C6 witness: the chain holds every key and an add_vertex for one of them
\* was refused.
C6_Witness ==
  /\ op.name \in AddVertexNames
  /\ ret = "false"
  /\ KeysOf(vertices) = Keys
  /\ Len(vertices) = Cardinality(Keys)

\* C7: every edge stored in a vertex has the key of a vertex of the chain as
\* its target, also in the state a call that failed leaves behind.
C7_NoDanglingEdge ==
  \A i \in 1..Len(vertices) :
    \A j \in 1..Len(vertices[i].edges) :
      Graph_vertex_exist(G, vertices[i].edges[j].to_key)

\* C8: add_edge, add_edge_v and add_edge_opt_v return false and change
\* nothing when the source or the target is absent.
C8_AddEdgeNeedsBoth ==
  [][(/\ op'.name \in AddEdgeNames
      /\ ~(Graph_vertex_exist(G, op'.k) /\ Graph_vertex_exist(G, op'.t)))
       => (ret' = "false" /\ UNCHANGED <<vertices, len, directed>>)]_vars

\* C8 witness: add_edge_v was refused with the source present and the target
\* absent.
C8_Witness ==
  /\ op.name = "add_edge_v"
  /\ ret = "false"
  /\ Graph_vertex_exist(G, op.k)
  /\ ~Graph_vertex_exist(G, op.t)

\* C9: with both endpoints present, add_edge* returns true and appends one
\* edge from->to carrying the value passed when there was none, and returns
\* false and changes nothing when there was one.
C9_AddEdgeDuplicateGuard ==
  [][(/\ op'.name \in AddEdgeNames
      /\ Graph_vertex_exist(G, op'.k)
      /\ Graph_vertex_exist(G, op'.t))
       => IF Graph_edge_exist(G, op'.k, op'.t)
          THEN ret' = "false" /\ UNCHANGED <<vertices, len, directed>>
          ELSE /\ ret' = "true"
               /\ vertices' =
                    [vertices EXCEPT ![Graph_get_vertex_mut(G, op'.k)].edges =
                       Append(@, [value |-> op'.x, to_key |-> op'.t])]
               /\ UNCHANGED <<len, directed>>]_vars

\* C9 witness: add_edge_v(from, to, v) was refused for an edge that is
\* second in from's chain and does not carry v.
C9_Witness ==
  /\ op.name = "add_edge_v"
  /\ ret = "false"
  /\ Graph_vertex_exist(G, op.k)
  /\ Len(EdgesOf(G, op.k)) = 2
  /\ EdgesOf(G, op.k)[2].to_key = op.t
  /\ EdgesOf(G, op.k)[2].value # op.x

\* C10: no edge chain holds two edges with the same target.
C10_UniqueTargets ==
  \A i \in 1..Len(vertices) :
    \A j, k \in 1..Len(vertices[i].edges) :
      vertices[i].edges[j].to_key = vertices[i].edges[k].to_key => j = k

\* C10 witness: an add_edge on a Vertex handle was refused for a vertex that
\* holds two edges.
C10_Witness ==
  /\ op.name = "vertex_add_edge"
  /\ ret = "false"
  /\ Len(EdgesOf(G, op.k)) = 2

\* The Graph methods that change the graph and return a bool.
BoolOpNames ==
  AddVertexNames \cup AddEdgeNames \cup
    {"remove_edge", "remove_vertex", "set_vertex_label", "set_vertex_label_opt",
     "remove_vertex_label", "set_edge_value", "set_edge_value_opt",
     "remove_edge_value"}

\* C11: a Graph method that returns false leaves the vertex chain, every
\* label, every edge chain, every edge value, len and directed as they were.
C11_FalseMeansUnchanged ==
  [][(op'.name \in BoolOpNames /\ ret' = "false")
       => UNCHANGED <<vertices, len, directed>>]_vars

\* C11 witness: remove_edge was refused with both endpoints present in a
\* graph that stores an edge.
C11_Witness ==
  /\ op.name = "remove_edge"
  /\ ret = "false"
  /\ Graph_vertex_exist(G, op.k)
  /\ Graph_vertex_exist(G, op.t)
  /\ TotalEdges(vertices) > 0

\* C12: a remove_vertex(k) call leaves the graph exactly as it was, or with
\* k unlinked and no vertex storing an edge to k: never k unlinked with an
\* edge to k still stored, never only some of the edges to k removed.
C12_RemoveVertexAtomic ==
  [][op'.name = "remove_vertex"
       => \/ vertices' = vertices
          \/ /\ ~Graph_vertex_exist(G', op'.k)
             /\ \A x \in KeysOf(vertices') : ~Graph_edge_exist(G', x, op'.k)]_vars

\* C13: remove_edge(from, to) returns true exactly when from and to are
\* vertices and from stores an edge to to, wherever that edge is in from's
\* chain, and after a true return edge_exist(from, to) is false.
C13_RemoveEdgeResult ==
  [][op'.name = "remove_edge"
       => /\ (ret' = "true") <=> (/\ Graph_vertex_exist(G, op'.k)
                                  /\ Graph_vertex_exist(G, op'.t)
                                  /\ Graph_edge_exist(G, op'.k, op'.t))
          /\ (ret' = "true") => ~Graph_edge_exist(G', op'.k, op'.t)]_vars

\* C14: vertices_iter() consumed to the end yields, for each vertex of the
\* chain in chain order, its key with the label get_vertex_label gives for
\* that key (None for a vertex without label), and then reports the end.
C14_VertexIteratorTotal ==
  op.name = "vertices_iter"
    => /\ ret = "end"
       /\ out = [i \in 1..Len(vertices) |->
                   <<vertices[i].key, Graph_get_vertex_label(G, vertices[i].key)>>]

\* C15: edges_iter() on a vertex, consumed to the end, yields for each edge
\* of the vertex's chain in chain order its target with its value (None for
\* an edge without value), and then reports the end.
C15_EdgeIteratorTotal ==
  (op.name = "edges_iter" /\ Graph_vertex_exist(G, op.k))
    => /\ ret = "end"
       /\ out = [j \in 1..Len(EdgesOf(G, op.k)) |->
                   <<EdgesOf(G, op.k)[j].to_key, EdgesOf(G, op.k)[j].value>>]

\* C16: in every graph state, built by new_with_vertices or modified through
\* a Vertex handle included, adjacent(from, to) = edge_exist(from, to) for
\* every pair of keys.
C16_AdjacentIsEdgeExist ==
  \A from_key \in Keys, to_key \in Keys :
    Graph_adjacent(G, from_key, to_key) = Graph_edge_exist(G, from_key, to_key)

\* C16 amended: in every such state adjacent(from, to) is true exactly when
\* edge_exist(from, to) is true and to is a vertex of the graph; the two
\* differ on an edge stored in from whose target is no vertex.
C16_AdjacentNeedsTarget ==
  \A from_key \in Keys, to_key \in Keys :
    Graph_adjacent(G, from_key, to_key)
      = (Graph_edge_exist(G, from_key, to_key) /\ Graph_vertex_exist(G, to_key))

\* C16 witness: adjacent(from, to) returned false for an edge that from
\* stores and whose target is no vertex.
C16_Witness ==
  /\ op.name = "adjacent"
  /\ ret = "false"
  /\ Graph_edge_exist(G, op.k, op.t)
  /\ ~Graph_vertex_exist(G, op.t)

C18_ClearResets ==
  [][op'.name = "clear"
       => /\ ret' # "panic"
          /\ vertices' = <<>>
          /\ Container_len(G') = 0
          /\ Container_is_empty(G')
          /\ \A k \in Keys : ~Graph_vertex_exist(G', k)
          /\ \A a \in Keys, b \in Keys : ~Graph_edge_exist(G', a, b)
          /\ Graph_is_directed(G') = Graph_is_directed(G)
          /\ \A k \in KeysOf(vertices) :
               /\ Graph_add_vertex(G', k).ret
               /\ ~Graph_add_vertex(G', k).panic
               /\ Container_len(Graph_add_vertex(G', k).g) = 1]_vars

\* C18 witness: clear() has returned and the graph is empty.
C18_Witness ==
  /\ op.name = "clear"
  /\ ret = "true"
  /\ vertices = <<>>
  /\ Container_is_empty(G)

\* The Vertex methods that add an edge, called on a get_vertex_mut handle.
VertexAddEdgeNames ==
  {"vertex_add_edge", "vertex_add_edge_v", "vertex_add_edge_opt_v"}

\* C19: a Graph add_edge* call from a to b # a that returned true makes
\* edge_exist(a, b) true and leaves edge_exist(b, a) and b's edge chain as
\* they were; and edge_exist(b, a) becomes true only in a step that is an
\* add-edge call from b to a that returned true.
C19_Directed ==
  [][/\ (op'.name \in AddEdgeNames /\ ret' = "true" /\ op'.k # op'.t)
          => /\ Graph_edge_exist(G', op'.k, op'.t)
             /\ Graph_edge_exist(G', op'.t, op'.k) = Graph_edge_exist(G, op'.t, op'.k)
             /\ EdgesOf(G', op'.t) = EdgesOf(G, op'.t)
     /\ \A a \in Keys, b \in Keys :
          (~Graph_edge_exist(G, b, a) /\ Graph_edge_exist(G', b, a))
            => /\ op'.name \in AddEdgeNames \cup VertexAddEdgeNames
               /\ op'.k = b
               /\ op'.t = a
               /\ ret' = "true"]_vars

\* C19 witness: add_edge(a, b) returned true with b # a, b has an edge of
\* its own and none to a.
C19_Witness ==
  /\ op.name = "add_edge"
  /\ ret = "true"
  /\ op.k # op.t
  /\ Graph_edge_exist(G, op.k, op.t)
  /\ ~Graph_edge_exist(G, op.t, op.k)
  /\ EdgesOf(G, op.t) # <<>>

\* The Graph methods that write the label of a present vertex.
SetLabelNames == {"set_vertex_label", "set_vertex_label_opt", "remove_vertex_label"}

\* From g to h every vertex of g is kept with its edge chain, and with its
\* label when its key is not k.
LabelFrame(g, h, k) ==
  \A j \in KeysOf(g.vertices) :
    /\ Graph_vertex_exist(h, j)
    /\ EdgesOf(h, j) = EdgesOf(g, j)
    /\ j # k => Graph_get_vertex_label(h, j) = Graph_get_vertex_label(g, j)

\* The label setters on a present k return true and get_vertex_label(k) is
\* then the label passed (None for remove_vertex_label and for
\* set_vertex_label_opt(k, None)), with every other label, every edge and
\* len() unchanged.
SetLabelRoundTrip ==
  (op'.name \in SetLabelNames /\ Graph_vertex_exist(G, op'.k))
    => /\ ret' = "true"
       /\ Graph_get_vertex_label(G', op'.k) = op'.x
       /\ LabelFrame(G, G', op'.k)
       /\ Container_len(G') = Container_len(G)

\* C20: the label setters on a present k and add_vertex_l(k, l) on an absent
\* k make get_vertex_label(k) the label passed; in every one of these calls
\* the other labels, the edges and len() are unchanged.
C20_LabelRoundTrip ==
  [][/\ SetLabelRoundTrip
     /\ (op'.name = "add_vertex_l" /\ ~Graph_vertex_exist(G, op'.k))
          => /\ Graph_get_vertex_label(G', op'.k) = op'.x
             /\ LabelFrame(G, G', op'.k)
             /\ Container_len(G') = Container_len(G)]_vars

\* C20 amended: as C20, but len() is unchanged by the label setters only:
\* add_vertex_l(k, l) on an absent k returns true and raises len() by one.
C20_LabelRoundTripCounted ==
  [][/\ SetLabelRoundTrip
     /\ (op'.name = "add_vertex_l" /\ ~Graph_vertex_exist(G, op'.k))
          => /\ ret' = "true"
             /\ Graph_get_vertex_label(G', op'.k) = op'.x
             /\ LabelFrame(G, G', op'.k)
             /\ Container_len(G') = Container_len(G) + 1]_vars

\* C20 witness: set_vertex_label(k, l) returned true for a k that is not the
\* head of the chain, the head has no label and the graph stores an edge.
C20_Witness ==
  /\ op.name = "set_vertex_label"
  /\ ret = "true"
  /\ Graph_get_vertex_label(G, op.k) = op.x
  /\ Head(vertices).key # op.k
  /\ Head(vertices).label = None
  /\ TotalEdges(vertices) > 0

\* The value of the first edge to to_key in from_key's chain; both exist.
EdgeValue(g, from_key, to_key) ==
  Head(VertexUtils_get_edge_imm(EdgesOf(g, from_key), to_key)).value

\* C21: remove_vertex_label(k) returns true exactly when k is a vertex and
\* changes nothing when k has no label; remove_edge_value(from, to) returns
\* true exactly when from and to are vertices and from stores an edge to to,
\* and changes nothing when that edge has no value; the same call made
\* again returns the same result and leaves the state the first call left.
C21_IdempotentClearing ==
  [][/\ op'.name = "remove_vertex_label"
          => /\ (ret' = "true") <=> Graph_vertex_exist(G, op'.k)
             /\ (Graph_get_vertex_label(G, op'.k) = None)
                  => UNCHANGED <<vertices, len, directed>>
             /\ Graph_remove_vertex_label(G', op'.k)
                  = [g |-> G', ret |-> (ret' = "true"), panic |-> FALSE]
     /\ op'.name = "remove_edge_value"
          => LET e == /\ Graph_vertex_exist(G, op'.k)
                      /\ Graph_vertex_exist(G, op'.t)
                      /\ Graph_edge_exist(G, op'.k, op'.t)
             IN  /\ (ret' = "true") <=> e
                 /\ (e /\ EdgeValue(G, op'.k, op'.t) = None)
                      => UNCHANGED <<vertices, len, directed>>
                 /\ Graph_remove_edge_value(G', op'.k, op'.t)
                      = [g |-> G', ret |-> (ret' = "true"), panic |-> FALSE]]_vars

\* C21 witness: remove_vertex_label(k) returned true for a vertex k that is
\* not the head of the chain, in a graph where another vertex has a label.
C21_Witness ==
  /\ op.name = "remove_vertex_label"
  /\ ret = "true"
  /\ Head(vertices).key # op.k
  /\ Graph_get_vertex_label(G, op.k) = None
  /\ \E j \in KeysOf(vertices) : Graph_get_vertex_label(G, j) # None

\* The Graph methods that write the value of an edge.
EdgeValueNames == {"set_edge_value", "set_edge_value_opt", "remove_edge_value"}

\* The position in the chain of the first edge to to_key, which exists.
EdgePos(edges, to_key) ==
  CHOOSE j \in 1..Len(edges) :
    /\ edges[j].to_key = to_key
    /\ \A i \in 1..(j - 1) : edges[i].to_key # to_key

\* C22: set_edge_value, set_edge_value_opt and remove_edge_value return true
\* exactly when from and to are vertices and from stores an edge to to; on
\* true the value of that edge becomes the value passed (None for
\* remove_edge_value) and every other edge value, the order of every chain,
\* every label and len() are unchanged; on false nothing changes.
C22_EdgeValueUpdate ==
  [][op'.name \in EdgeValueNames
       => LET e == /\ Graph_vertex_exist(G, op'.k)
                   /\ Graph_vertex_exist(G, op'.t)
                   /\ Graph_edge_exist(G, op'.k, op'.t)
              i == Graph_get_vertex_mut(G, op'.k)
          IN  /\ (ret' = "true") <=> e
              /\ IF e
                 THEN /\ vertices' =
                           [vertices EXCEPT
                              ![i].edges[EdgePos(vertices[i].edges, op'.t)].value = op'.x]
                      /\ UNCHANGED <<len, directed>>
                 ELSE UNCHANGED <<vertices, len, directed>>]_vars

\* C22 witness: remove_edge_value(from, to) returned true for the second
\* edge of from's chain, whose first edge carries a value, in a graph with a
\* labelled vertex.
C22_Witness ==
  /\ op.name = "remove_edge_value"
  /\ ret = "true"
  /\ Len(EdgesOf(G, op.k)) = 2
  /\ EdgesOf(G, op.k)[2].to_key = op.t
  /\ EdgesOf(G, op.k)[2].value = None
  /\ EdgesOf(G, op.k)[1].value # None
  /\ \E j \in KeysOf(vertices) : Graph_get_vertex_label(G, j) # None

\* C23: is_directed() is true in every state of a graph built by new or by
\* new_with_vertices, whatever calls followed.
C23_AlwaysDirected ==
  /\ Graph_is_directed(G) = TRUE
  /\ op.name = "is_directed" => ret = "true"

\* C23 witness: is_directed() returned true on a graph built from a vector
\* of vertices that stores an edge.
C23_Witness ==
  /\ op.name = "is_directed"
  /\ ret = "true"
  /\ given # <<>>
  /\ TotalEdges(vertices) > 0

\* C24: remove_vertex(k) with k the key of the first vertex of the chain
\* returns true and leaves the vertex chain, every edge chain and len() as
\* they were, for a chain of one vertex and for a longer one.
C24_HeadVertexQuirk ==
  [][(/\ op'.name = "remove_vertex"
      /\ vertices # <<>>
      /\ Head(vertices).key = op'.k)
       => (ret' = "true" /\ UNCHANGED <<vertices, len, directed>>)]_vars

\* C25: remove_edge(from, to), on the Graph or on a Vertex handle, with the
\* edge to `to` first in from's edge chain returns true and leaves from's
\* chain and all other state as they were, for a chain of one edge and for a
\* longer one.
C25_HeadEdgeQuirk ==
  [][(/\ op'.name \in {"remove_edge", "vertex_remove_edge"}
      /\ Graph_vertex_exist(G, op'.k)
      /\ op'.name = "remove_edge" => Graph_vertex_exist(G, op'.t)
      /\ EdgesOf(G, op'.k) # <<>>
      /\ Head(EdgesOf(G, op'.k)).to_key = op'.t)
       => (ret' = "true" /\ UNCHANGED <<vertices, len, directed>>)]_vars

\* C26: an add_vertex* call that returned true appended the new vertex, with
\* the key and label passed and no edge, after the last vertex, and an
\* add_edge* call that returned true appended the new edge, with the target
\* and value passed, after the last edge of the source vertex; every node
\* that was there keeps its place and its content.
C26_TailInsertion ==
  [][/\ (op'.name \in AddVertexNames /\ ret' = "true")
          => vertices' =
               Append(vertices, [key |-> op'.k, label |-> op'.x, edges |-> <<>>])
     /\ (op'.name \in AddEdgeNames /\ ret' = "true")
          => vertices' =
               [vertices EXCEPT ![Graph_get_vertex_mut(G, op'.k)].edges =
                  Append(@, [value |-> op'.x, to_key |-> op'.t])]]_vars

\* C26 witness: add_vertex_l returned true and its vertex is third in the
\* chain, behind a vertex that holds two edges.
C26_Witness ==
  /\ op.name = "add_vertex_l"
  /\ ret = "true"
  /\ Len(vertices) = 3
  /\ vertices[3].key = op.k
  /\ vertices[3].label = op.x
  /\ Len(vertices[1].edges) = 2

\* C27: after a remove_vertex(k) that returned true, add_vertex(k) returns
\* true and the vertex k it links has no label and no edge: edge_exist(k, x)
\* is false for every x.
C27_RemovedThenAdded ==
  [][(op'.name = "remove_vertex" /\ ret' = "true")
       => LET r == Graph_add_vertex(G', op'.k)
          IN  /\ r.ret
              /\ ~r.panic
              /\ Graph_vertex_exist(r.g, op'.k)
              /\ Graph_get_vertex_label(r.g, op'.k) = None
              /\ EdgesOf(r.g, op'.k) = <<>>
              /\ \A x \in Keys : ~Graph_edge_exist(r.g, op'.k, x)]_vars

\* C27 witness: remove_vertex(k) returned true, k is no vertex any more and
\* the vertices left hold a label and an edge.
C27_Witness ==
  /\ op.name = "remove_vertex"
  /\ ret = "true"
  /\ ~Graph_vertex_exist(G, op.k)
  /\ TotalEdges(vertices) > 0
  /\ \E j \in KeysOf(vertices) : Graph_get_vertex_label(G, j) # None

\* The calls that write a label, an edge or an edge value, on the Graph and
\* on a Vertex handle.
LabelEdgeNames ==
  SetLabelNames \cup AddEdgeNames \cup EdgeValueNames \cup VertexAddEdgeNames
    \cup {"remove_edge", "vertex_remove_edge", "vertex_set_label",
          "vertex_remove_label", "vertex_set_edge_value",
          "vertex_set_edge_value_opt", "vertex_remove_edge_value"}

\* The keys of a chain, in chain order.
KeyChain(chain) == [i \in 1..Len(chain) |-> chain[i].key]

RemoveExact(chain, k) ==
  LET kept == SelectSeq(chain, LAMBDA v : v.key # k)
  IN  [i \in 1..Len(kept) |->
         [kept[i] EXCEPT !.edges = SelectSeq(@, LAMBDA e : e.to_key # k)]]

\* No vertex other than k has its edge to k first in its edge chain.
NoFirstEdgeTo(chain, k) ==
  \A i \in 1..Len(chain) :
    (chain[i].key # k /\ chain[i].edges # <<>>)
      => Head(chain[i].edges).to_key # k

\* C29: remove_vertex(k) with k a vertex that is not the first of the chain,
\* and no other vertex holding its edge to k first in its chain, returns
\* true, unlinks exactly k and exactly the edges whose target is k, and
\* leaves the other vertices, their order, labels, edges and edge values as
\* they were.
C29_NonHeadRemovalExact ==
  [][(/\ op'.name = "remove_vertex"
      /\ Graph_vertex_exist(G, op'.k)
      /\ Head(vertices).key # op'.k
      /\ NoFirstEdgeTo(vertices, op'.k))
       => /\ ret' = "true"
          /\ vertices' = RemoveExact(vertices, op'.k)
          /\ directed' = directed]_vars

\* C29 witness: remove_vertex(k) returned true and left two vertices that
\* hold three edges.
C29_Witness ==
  /\ op.name = "remove_vertex"
  /\ ret = "true"
  /\ ~Graph_vertex_exist(G, op.k)
  /\ Len(vertices) = 2
  /\ TotalEdges(vertices) = 3

====
